---- MODULE Spec2Model ----
(***************************************************************************)
(* Model of the session tool registry (ToolMapManager) and of its entries  *)
(* (ToolEntryDTO).  The registry runs on one asyncio event loop: a step of *)
(* the model is the code a coroutine runs between two suspension points    *)
(* (await initialize(), await execute(), await wait_for(...)).             *)
(*                                                                         *)
(* Entry objects live in a heap (entries) indexed by object ids, because   *)
(* coroutines keep a reference to the entry they looked up while the map   *)
(* may be changed by remove_tool / add_tool in the meantime.  Timestamps   *)
(* are abstracted to "is set" flags.                                       *)
(***************************************************************************)
EXTENDS Integers, Sequences, FiniteSets, TLC

\* ------------------------------------------------------------------ bounds
\* Tool identifiers used by the callers.
ToolIds == {"a", "b"}
\* Largest max_tools (constructor argument) of the registries analysed.
MaxTools == 2
\* Bound on the number of successful add_tool calls (entry objects created).
MaxAdds == 2
\* Bound on the number of execute() invocations started through execute_tool.
MaxExecs == 2
\* Concurrent callers of execute_tool.
Callers == {"c1", "c2"}

Objs == 1 .. MaxAdds

\* ------------------------------------------------------- ToolStatusENUM
UNINITIALIZED == "uninitialized"
READY == "ready"
EXECUTING == "executing"
ERROR == "error"
DISABLED == "disabled"

\* --------------------------------------------------------- ToolEntryDTO
\* Default of the max_history_size field.
DefaultMaxHistorySize == 50

\* Duration measured for one execution (time.time() - start_time).
ExecutionTime == 2

\* Messages carried by exceptions raised by a tool: str(e) may be empty
\* (raise RuntimeError(), a failing assert).
ExcMessages == {"", "boom"}

\* A freshly constructed entry, as add_tool builds it (status UNINITIALIZED,
\* every statistic at its dataclass default).  has_initialize stands for
\* hasattr(tool_instance, 'initialize').
NewEntry(id, h) ==
    [ tool_id |-> id,
      has_initialize |-> h,
      status |-> UNINITIALIZED,
      initialized_at |-> FALSE,
      last_executed |-> FALSE,
      execution_count |-> 0,
      total_execution_time |-> 0,
      average_execution_time |-> <<0, 1>>,
      execution_history |-> <<>>,
      max_history_size |-> DefaultMaxHistorySize,
      error_count |-> 0,
      last_error |-> "None",
      last_error_time |-> FALSE ]

\* A heap slot no add_tool has allocated yet.
NoEntry == [NewEntry("", FALSE) EXCEPT !.status = "unallocated"]

\* h[-n:] of Python: the last n elements for n > 0 (all of h when it is no
\* longer than n); h[0:], the whole list, for n = 0; h[k:] for n = -k < 0.
LastN(h, n) ==
    IF n > 0
    THEN IF n >= Len(h) THEN h ELSE SubSeq(h, Len(h) - n + 1, Len(h))
    ELSE SubSeq(h, 1 - n, Len(h))

update_execution_stats_no_count(e, t) ==
    [e EXCEPT !.last_executed = TRUE,
              !.total_execution_time = @ + t,
              !.average_execution_time = <<e.total_execution_time + t, 1>>]

\* As update_execution_stats, but the average is taken before the new
\* execution is counted.
update_execution_stats_stale_average(e, t) ==
    [e EXCEPT !.last_executed = TRUE,
              !.execution_count = @ + 1,
              !.total_execution_time = @ + t,
              !.average_execution_time =
                  IF e.execution_count = 0 THEN <<0, 1>>
                  ELSE <<e.total_execution_time, e.execution_count>>]

\* ToolEntryDTO.update_execution_stats; the average is kept as the fraction
\* <<total_execution_time, execution_count>>.
update_execution_stats(e, t) ==
    [e EXCEPT !.last_executed = TRUE,
              !.execution_count = @ + 1,
              !.total_execution_time = @ + t,
              !.average_execution_time =
                  <<e.total_execution_time + t, e.execution_count + 1>>]

\* ToolEntryDTO.add_to_execution_history
add_to_execution_history(e, rec) ==
    LET h == Append(e.execution_history, rec)
    IN  [e EXCEPT !.execution_history =
            IF Len(h) > e.max_history_size
            THEN LastN(h, e.max_history_size)
            ELSE h]

\* ToolEntryDTO.record_error
record_error(e, msg) ==
    add_to_execution_history(
        [e EXCEPT !.error_count = @ + 1,
                  !.last_error = msg,
                  !.last_error_time = TRUE,
                  !.status = ERROR],
        [error |-> msg, success |-> FALSE])

\* ToolEntryDTO.is_ready
is_ready(e) == e.status = READY

\* ---------------------------------------------------------------- state
VARIABLES
    tool_map,              \* self._tool_map: tool id -> entry object (0: no key)
    entries,               \* heap of ToolEntryDTO objects
    initialization_tasks,  \* self._initialization_tasks: tool id -> task (0: no key)
    tasks,                 \* the asyncio tasks created by add_tool
    max_tools,             \* self.max_tools
    total_added,
    total_removed,
    total_executions,
    calls,                 \* the execute_tool coroutines of the callers
    waits,                 \* the wait_for_* coroutines of the waiters
    batch,                 \* the execute_multiple_tools coroutine
    contexts,              \* heap of context dictionaries (0: the caller's)
    nested,                \* heap of the dictionaries nested in a context
    descr,                 \* the descriptive fields of the entry objects
    dto,                   \* a ToolEntryDTO constructed outside the registry
    dto_log,               \* every record handed to dto, in order
    last                   \* the call that returned in the last step, and its value

vars == <<tool_map, entries, initialization_tasks, tasks, max_tools,
          total_added, total_removed, total_executions, calls, waits,
          batch, contexts, nested, descr, dto, dto_log, last>>

\* The registry object as one value; the handlers below are functions of it.
W == [ tool_map |-> tool_map,
       entries |-> entries,
       initialization_tasks |-> initialization_tasks,
       tasks |-> tasks,
       max_tools |-> max_tools,
       total_added |-> total_added,
       total_removed |-> total_removed,
       total_executions |-> total_executions ]

\* Concurrent callers of the wait_for_* helpers.
Waiters == {"w1"}

NoResult == [none |-> TRUE]
IdleCall == [pc |-> "idle", tool |-> "", entry |-> 0]
IdleWait == [pc |-> "idle", op |-> "", awaited |-> {}]
NoTask == [state |-> "none", cancel |-> FALSE, tool |-> "", entry |-> 0]

\* What the tool did in the step, when the step is a return or a raise of
\* its execute(): an observation of the environment, not registry state.
NoOutcome == [kind |-> "", result |-> NoResult, msg |-> ""]

\* A step in which no call returns.
NoReturn == [op |-> "", who |-> "", id |-> "", ret |-> NoResult, out |-> NoOutcome]
Returned(op, who, id, ret) ==
    [op |-> op, who |-> who, id |-> id, ret |-> ret, out |-> NoOutcome]

\* Longest id list given to execute_multiple_tools.
MaxBatch == 3

CtxIds == 0 .. MaxBatch

\* The query of the context the callers pass.
Query == "q"

\* A context dictionary: the query, the "<tool_id>_result" keys (NoResult:
\* key absent), a top-level key a tool may set (mark: the batch position of
\* the writer, 0 when unset) and a reference to a nested dictionary (opts).
CallerContext ==
    [query |-> Query, results |-> [i \in ToolIds |-> NoResult],
     mark |-> 0, opts |-> 0]

IdleBatch ==
    [pc |-> "idle", sequential |-> TRUE, ids |-> <<>>, idx |-> 0, subs |-> <<>>,
     results |-> [tools_executed |-> <<>>,
                  tool_results |-> [i \in ToolIds |-> NoResult],
                  success |-> TRUE]]

\* Texts are sequences of characters.  The descriptive fields of an entry
\* as the dataclass defaults them.
NoDescription ==
    [tool_id |-> <<>>, name |-> <<>>, description |-> <<>>,
     capabilities |-> <<>>, keywords |-> <<>>]

\* ToolMapManager.__init__
InitRegistry ==
    /\ tool_map = [i \in ToolIds |-> 0]
    /\ entries = [o \in Objs |-> NoEntry]
    /\ initialization_tasks = [i \in ToolIds |-> 0]
    /\ tasks = [o \in Objs |-> NoTask]
    /\ max_tools \in 1 .. MaxTools
    /\ total_added = 0
    /\ total_removed = 0
    /\ total_executions = 0
    /\ calls = [c \in Callers |-> IdleCall]
    /\ waits = [w \in Waiters |-> IdleWait]
    /\ batch = IdleBatch
    /\ contexts = [k \in CtxIds |-> CallerContext]
    /\ nested = [k \in CtxIds |-> 0]
    /\ descr = [o \in Objs |-> NoDescription]
    /\ last = NoReturn

\* A new registry; the entry constructed outside it has the default fields.
Init ==
    /\ InitRegistry
    /\ dto = NewEntry("a", FALSE)
    /\ dto_log = <<>>

\* Objects nothing refers to any more are unobservable: an entry that is in
\* no table and held by no coroutine, a finished task nobody awaits.  They
\* are returned to their blank value.
Reclaim(w, C, WT, B) ==
    LET liveEntry(o) ==
            \/ \E i \in ToolIds : w.tool_map[i] = o
            \/ \E c \in Callers : C[c].pc # "idle" /\ C[c].entry = o
            \/ \E k \in DOMAIN B.subs :
                   B.subs[k].pc \in {"initializing", "executing"}
                   /\ B.subs[k].entry = o
            \/ \E t \in Objs : w.tasks[t].state = "running" /\ w.tasks[t].entry = o
        liveTask(t) ==
            \/ w.tasks[t].state \in {"pending", "running"}
            \/ \E x \in Waiters : WT[x].pc # "idle" /\ t \in WT[x].awaited
    IN  [w EXCEPT
            !.entries = [o \in Objs |-> IF liveEntry(o) THEN w.entries[o] ELSE NoEntry],
            !.tasks = [t \in Objs |-> IF liveTask(t) THEN w.tasks[t] ELSE NoTask]]

\* The registry after a step.
CommitRegistry(w) ==
    /\ tool_map' = w.tool_map
    /\ entries' = w.entries
    /\ initialization_tasks' = w.initialization_tasks
    /\ tasks' = w.tasks
    /\ max_tools' = w.max_tools
    /\ total_added' = w.total_added
    /\ total_removed' = w.total_removed
    /\ total_executions' = w.total_executions

\* The step's result: the registry, the coroutines and the returned call.
Commit(w, C, WT, ret) ==
    /\ CommitRegistry(Reclaim(w, C, WT, batch))
    /\ calls' = C
    /\ waits' = WT
    /\ last' = ret
    /\ UNCHANGED <<batch, contexts, nested, descr, dto, dto_log>>

\* The result of a step of execute_multiple_tools.
CommitBatch(w, B, CT, N, ret) ==
    /\ CommitRegistry(Reclaim(w, calls, waits, B))
    /\ batch' = B
    /\ contexts' = CT
    /\ nested' = N
    /\ last' = ret
    /\ UNCHANGED <<calls, waits, descr, dto, dto_log>>

\* len(self._tool_map)
count(w) == Cardinality({i \in ToolIds : w.tool_map[i] # 0})

\* ------------------------------------------------------------- add_tool
AtCapacityOffByOne(w) == count(w) > w.max_tools

\* The capacity check of add_tool.
AtCapacity(w) == count(w) >= w.max_tools

AlreadyExistsSkipped(w, id) == FALSE

\* The duplicate check of add_tool.
AlreadyExists(w, id) == w.tool_map[id] # 0

\* As add_tool, but a background task is created for every tool and the
\* entry is left UNINITIALIZED for it.
add_tool_always_spawns(w, id, h) ==
    IF AtCapacity(w) \/ AlreadyExists(w, id)
    THEN [w |-> w, ret |-> FALSE]
    ELSE LET o == w.total_added + 1
         IN  [w |-> [w EXCEPT !.tool_map[id] = o, !.total_added = @ + 1,
                              !.entries[o] = NewEntry(id, h),
                              !.tasks[o] = [state |-> "pending", cancel |-> FALSE,
                                            tool |-> id, entry |-> 0],
                              !.initialization_tasks[id] = o],
              ret |-> TRUE]

\* ToolMapManager.add_tool (no suspension point): the registry after the
\* call and the value returned.  The new entry object and, for a tool with
\* an initializer, the new task are numbered by the count of additions.
add_tool(w, id, h) ==
    IF AtCapacity(w) \/ AlreadyExists(w, id)
    THEN [w |-> w, ret |-> FALSE]
    ELSE LET o == w.total_added + 1
             e == NewEntry(id, h)
             w1 == [w EXCEPT !.tool_map[id] = o, !.total_added = @ + 1]
         IN  [w |-> IF h
                    THEN [w1 EXCEPT
                            !.entries[o] = e,
                            !.tasks[o] = [state |-> "pending", cancel |-> FALSE,
                                          tool |-> id, entry |-> 0],
                            !.initialization_tasks[id] = o]
                    ELSE [w1 EXCEPT
                            !.entries[o] = [e EXCEPT !.status = READY,
                                                     !.initialized_at = TRUE]],
              ret |-> TRUE]

AddTool(id, h) ==
    LET r == add_tool(W, id, h)
    IN  /\ r.ret => total_added < MaxAdds
        /\ Commit(r.w, calls, waits, Returned("add_tool", "", id, r.ret))

\* asyncio.Task.cancel(): a request, delivered at the task's next step; no
\* effect on a task that has finished.
Cancel(T, t) ==
    IF T[t].state \in {"pending", "running"}
    THEN [T EXCEPT ![t].cancel = TRUE]
    ELSE T

\* As remove_tool, but the pending initialization is left alone.
remove_tool_keeps_handle(w, id) ==
    IF w.tool_map[id] = 0
    THEN [w |-> w, ret |-> FALSE]
    ELSE [w |-> [w EXCEPT !.tool_map[id] = 0, !.total_removed = @ + 1],
          ret |-> TRUE]

\* As remove_tool, but the removal is not counted.
remove_tool_uncounted(w, id) ==
    IF w.tool_map[id] = 0
    THEN [w |-> w, ret |-> FALSE]
    ELSE LET t == w.initialization_tasks[id]
             w1 == IF t # 0
                   THEN [w EXCEPT !.tasks = Cancel(w.tasks, t),
                                  !.initialization_tasks[id] = 0]
                   ELSE w
         IN  [w |-> [w1 EXCEPT !.tool_map[id] = 0], ret |-> TRUE]

\* ToolMapManager.remove_tool (no suspension point).
remove_tool(w, id) ==
    IF w.tool_map[id] = 0
    THEN [w |-> w, ret |-> FALSE]
    ELSE LET t == w.initialization_tasks[id]
             w1 == IF t # 0
                   THEN [w EXCEPT !.tasks = Cancel(w.tasks, t),
                                  !.initialization_tasks[id] = 0]
                   ELSE w
         IN  [w |-> [w1 EXCEPT !.tool_map[id] = 0, !.total_removed = @ + 1],
              ret |-> TRUE]

RemoveTool(id) ==
    LET r == remove_tool(W, id)
    IN  Commit(r.w, calls, waits, Returned("remove_tool", "", id, r.ret))

\* -------------------------------------------------------------- cleanup
\* ToolMapManager.cleanup: a cancellation request to the task behind every
\* handle, then remove_tool for every id in the map.  remove_tool never
\* suspends, so the whole call is one step.
cleanup(w) ==
    LET RECURSIVE cancel_all(_, _)
        cancel_all(T, S) ==
            IF S = {} THEN T
            ELSE LET i == CHOOSE x \in S : TRUE
                 IN  cancel_all(Cancel(T, w.initialization_tasks[i]), S \ {i})
        RECURSIVE remove_all(_, _)
        remove_all(v, S) ==
            IF S = {} THEN v
            ELSE LET i == CHOOSE x \in S : TRUE
                 IN  remove_all(remove_tool(v, i).w, S \ {i})
    IN  remove_all(
            [w EXCEPT !.tasks =
                cancel_all(@, {i \in ToolIds : w.initialization_tasks[i] # 0})],
            {i \in ToolIds : w.tool_map[i] # 0})

Cleanup ==
    Commit(cleanup(W), calls, waits, Returned("cleanup", "", "", NoResult))

\* ---------------------------------------------------- _initialize_tool
\* What a tool's initialize() can do: return a truthy or falsy value, or raise.
InitOutcomes ==
    {[kind |-> "return", value |-> b, msg |-> ""] : b \in BOOLEAN}
    \cup {[kind |-> "raise", value |-> FALSE, msg |-> m] : m \in ExcMessages}

\* The finally clause of _initialize_tool: drops whatever handle the table
\* holds under the tool id.
discard_task_reference(w, id) == [w EXCEPT !.initialization_tasks[id] = 0]

\* _initialize_tool up to the await of initialize().  The entry is looked
\* up in the map (KeyError when the tool is gone: caught, nothing to mark,
\* finally); a tool without initializer is marked READY on the spot.
initialize_tool_begin(w, id) ==
    LET ent == w.tool_map[id]
    IN  IF ent = 0
        THEN [w |-> discard_task_reference(w, id), suspended |-> FALSE, entry |-> 0]
        ELSE IF w.entries[ent].has_initialize
        THEN [w |-> w, suspended |-> TRUE, entry |-> ent]
        ELSE [w |-> discard_task_reference(
                        [w EXCEPT !.entries[ent].status = READY,
                                  !.entries[ent].initialized_at = TRUE], id),
              suspended |-> FALSE, entry |-> ent]

\* As initialize_tool_end, but a falsy return of initialize() leaves the
\* entry as it was.
initialize_tool_end_false_ignored(w, id, ent, out) ==
    discard_task_reference(
        IF out.kind = "return"
        THEN IF out.value
             THEN [w EXCEPT !.entries[ent].status = READY,
                            !.entries[ent].initialized_at = TRUE]
             ELSE w
        ELSE IF w.tool_map[id] # 0
             THEN [w EXCEPT !.entries[w.tool_map[id]] =
                        record_error([@ EXCEPT !.status = ERROR], out.msg)]
             ELSE w,
        id)

\* _initialize_tool after initialize() has returned or raised: the success
\* and failure branches write to the entry looked up before the await, the
\* except branch to the entry the map holds now (if any); then finally.
initialize_tool_end(w, id, ent, out) ==
    discard_task_reference(
        IF out.kind = "return"
        THEN IF out.value
             THEN [w EXCEPT !.entries[ent].status = READY,
                            !.entries[ent].initialized_at = TRUE]
             ELSE [w EXCEPT !.entries[ent].status = ERROR]
        ELSE IF w.tool_map[id] # 0
             THEN [w EXCEPT !.entries[w.tool_map[id]] =
                        record_error([@ EXCEPT !.status = ERROR], out.msg)]
             ELSE w,
        id)

\* First step of the background task.
InitTaskStart(t) ==
    /\ tasks[t].state = "pending"
    /\ ~tasks[t].cancel
    /\ LET r == initialize_tool_begin(W, tasks[t].tool)
       IN  Commit([r.w EXCEPT !.tasks[t].state =
                                  IF r.suspended THEN "running" ELSE "done",
                              !.tasks[t].entry = r.entry],
                  calls, waits, NoReturn)

\* The background task resumes from initialize() and runs to its end.
InitTaskFinish(t, out) ==
    /\ tasks[t].state = "running"
    /\ ~tasks[t].cancel
    /\ Commit([initialize_tool_end(W, tasks[t].tool, tasks[t].entry, out)
                  EXCEPT !.tasks[t].state = "done"],
              calls, waits, NoReturn)

\* Delivery of a cancellation: a task that never started runs no code; a
\* task suspended in initialize() gets CancelledError, which except Exception
\* does not catch, and runs its finally clause.
InitTaskCancelled(t) ==
    /\ tasks[t].cancel
    /\ tasks[t].state \in {"pending", "running"}
    /\ Commit([(IF tasks[t].state = "running"
                THEN discard_task_reference(W, tasks[t].tool)
                ELSE W)
                  EXCEPT !.tasks[t].state = "cancelled"],
              calls, waits, NoReturn)

\* --------------------------------------------------------- execute_tool
\* Results a tool's execute() can return: dictionaries, with or without the
\* success key.
ToolResults ==
    { [success |-> TRUE, value |-> 42],
      [success |-> FALSE, value |-> 0],
      [value |-> 7] }

\* dict.get(k, default)
Get(d, k, default) == IF k \in DOMAIN d THEN d[k] ELSE default

ExecOutcomes ==
    {[kind |-> "return", result |-> r, msg |-> ""] : r \in ToolResults}
    \cup {[kind |-> "raise", result |-> NoResult, msg |-> m] : m \in ExcMessages}

\* The failure results execute_tool builds itself.
NotFoundResult(id) ==
    [success |-> FALSE, error |-> "Tool " \o id \o " not found", tool |-> id]

NotReadyResult(id, status) ==
    [success |-> FALSE,
     error |-> "Tool " \o id \o " is not ready (status: " \o status \o ")",
     tool |-> id]

ErrorResult(id, msg) == [success |-> FALSE, error |-> msg, tool |-> id]

\* As dispatch, but only an entry in ERROR is turned away.
dispatch_unless_error(w, id, ent) ==
    IF w.entries[ent].status = ERROR
    THEN [w |-> w, pc |-> "idle", entry |-> 0,
          ret |-> NotReadyResult(id, w.entries[ent].status)]
    ELSE [w |-> [w EXCEPT !.entries[ent].status = EXECUTING],
          pc |-> "executing", entry |-> ent, ret |-> NoResult]

\* execute_tool from the readiness check to the await of execute(): the call
\* returns a failure, or marks the entry EXECUTING and suspends.
dispatch(w, id, ent) ==
    IF ~is_ready(w.entries[ent])
    THEN [w |-> w, pc |-> "idle", entry |-> 0,
          ret |-> NotReadyResult(id, w.entries[ent].status)]
    ELSE [w |-> [w EXCEPT !.entries[ent].status = EXECUTING],
          pc |-> "executing", entry |-> ent, ret |-> NoResult]

\* execute_tool up to its first suspension point.
execute_tool_begin(w, id) ==
    LET ent == w.tool_map[id]
    IN  IF ent = 0
        THEN [w |-> w, pc |-> "idle", entry |-> 0, ret |-> NotFoundResult(id)]
        ELSE IF w.entries[ent].status = UNINITIALIZED
        THEN LET r == initialize_tool_begin(w, id)
             IN  IF r.suspended
                 THEN [w |-> w, pc |-> "initializing", entry |-> ent,
                       ret |-> NoResult]
                 ELSE dispatch(r.w, id, ent)
        ELSE dispatch(w, id, ent)

\* The lazy initialization inside execute_tool returns; the call goes on to
\* the readiness check of the entry it looked up at its start.
execute_tool_initialized(w, id, ent, out) ==
    dispatch(initialize_tool_end(w, id, ent, out), id, ent)

\* The entry after a normal return of execute().
entry_after_success(e, query, r) ==
    [add_to_execution_history(
         update_execution_stats(e, ExecutionTime),
         [query |-> query, result |-> r,
          success |-> Get(r, "success", FALSE),
          execution_time |-> ExecutionTime])
     EXCEPT !.status = READY]

\* As entry_after_failure, but the failed execution is counted.
entry_after_failure_counted(e, msg) ==
    [record_error(e, msg) EXCEPT !.status = READY,
                                 !.execution_count = @ + 1]

\* The entry after execute() raised.
entry_after_failure(e, msg) ==
    [record_error(e, msg) EXCEPT !.status = READY]

\* execute() returns or raises; execute_tool runs to its end.
execute_tool_end(w, id, ent, query, out) ==
    IF out.kind = "return"
    THEN [w |-> [w EXCEPT !.entries[ent] = entry_after_success(@, query, out.result),
                          !.total_executions = @ + 1],
          ret |-> out.result]
    ELSE [w |-> [w EXCEPT !.entries[ent] = entry_after_failure(@, out.msg)],
          ret |-> ErrorResult(id, out.msg)]

\* The quantity MaxExecs bounds: the execute_tool calls in flight plus the
\* executions and errors recorded on the entries.
ExecsStarted ==
    LET RECURSIVE Sum(_)
        Sum(S) == IF S = {} THEN 0
                  ELSE LET o == CHOOSE x \in S : TRUE
                       IN  entries[o].execution_count + entries[o].error_count
                           + Sum(S \ {o})
    IN  Cardinality({c \in Callers : calls[c].pc # "idle"}) + Sum(Objs)

\* The caller's coroutine after a step of execute_tool, and what it returned.
CallStep(c, id, r, out) ==
    Commit(r.w,
           [calls EXCEPT ![c] = [pc |-> r.pc, tool |-> IF r.pc = "idle" THEN "" ELSE id,
                                 entry |-> r.entry]],
           waits,
           IF r.pc = "idle"
           THEN [Returned("execute_tool", c, id, r.ret) EXCEPT !.out = out]
           ELSE NoReturn)

ExecuteToolCall(c, id) ==
    /\ calls[c].pc = "idle"
    /\ CallStep(c, id, execute_tool_begin(W, id), NoOutcome)

ExecuteToolInitDone(c, out) ==
    /\ calls[c].pc = "initializing"
    /\ CallStep(c, calls[c].tool,
                execute_tool_initialized(W, calls[c].tool, calls[c].entry, out),
                NoOutcome)

ExecuteToolDone(c, out) ==
    /\ calls[c].pc = "executing"
    /\ LET r == execute_tool_end(W, calls[c].tool, calls[c].entry, Query, out)
       IN  CallStep(c, calls[c].tool,
                    [w |-> r.w, pc |-> "idle", entry |-> 0, ret |-> r.ret], out)

\* ------------------------------------------------------------- wait_for_*
\* wait_for_tool_initialization up to its await: without a handle it
\* returns `entry and entry.status == READY` (None for an unknown id).
wait_for_tool_begin(w, id) ==
    IF w.initialization_tasks[id] = 0
    THEN [pc |-> "idle", awaited |-> {},
          ret |-> IF w.tool_map[id] = 0 THEN "None"
                  ELSE IF w.entries[w.tool_map[id]].status = READY THEN "True"
                  ELSE "False"]
    ELSE [pc |-> "waiting", awaited |-> {w.initialization_tasks[id]},
          ret |-> ""]

\* wait_for_all_initializations up to its await of the gathered handles.
wait_for_all_begin(w) ==
    LET H == {w.initialization_tasks[i] : i \in ToolIds} \ {0}
    IN  IF H = {}
        THEN [pc |-> "idle", awaited |-> {}, ret |-> "True"]
        ELSE [pc |-> "waiting", awaited |-> H, ret |-> ""]

Finished(T, t) == T[t].state \in {"done", "cancelled"}

\* asyncio.wait_for on expiry of the timeout: it cancels what it awaits (a
\* task, or a gather, which cancels each of its unfinished children) and
\* then waits for the cancellation to be carried out.
wait_for_timeout(T, awaited) ==
    [t \in Objs |-> IF t \in awaited THEN Cancel(T, t)[t] ELSE T[t]]

WaitStep(x, op, id, r) ==
    Commit(W, calls,
           [waits EXCEPT ![x] = [pc |-> r.pc, op |-> IF r.pc = "idle" THEN "" ELSE op,
                                 awaited |-> r.awaited]],
           IF r.pc = "idle" THEN Returned(op, x, id, r.ret) ELSE NoReturn)

WaitForToolCall(x, id) ==
    /\ waits[x].pc = "idle"
    /\ WaitStep(x, "wait_for_tool_initialization", id, wait_for_tool_begin(W, id))

WaitForAllCall(x) ==
    /\ waits[x].pc = "idle"
    /\ WaitStep(x, "wait_for_all_initializations", "", wait_for_all_begin(W))

\* The awaited work ends before the timeout.  A cancelled task (or a gather
\* with a cancelled child) raises CancelledError, which is no Exception and
\* leaves the helper; otherwise the helper returns True, wait_for_all after
\* clearing the handle table.
WaitDone(x) ==
    /\ waits[x].pc = "waiting"
    /\ LET A == waits[x].awaited
           cancelled == \E t \in A : tasks[t].state = "cancelled"
       IN  /\ cancelled \/ \A t \in A : tasks[t].state = "done"
           /\ Commit(IF ~cancelled /\ waits[x].op = "wait_for_all_initializations"
                     THEN [W EXCEPT !.initialization_tasks = [i \in ToolIds |-> 0]]
                     ELSE W,
                     calls,
                     [waits EXCEPT ![x] = IdleWait],
                     Returned(waits[x].op, x, "",
                              IF cancelled THEN "CancelledError" ELSE "True"))

\* The timeout expires first (it is positive: every awaited task has
\* started, and no cancellation is under way).
WaitTimeout(x) ==
    /\ waits[x].pc = "waiting"
    /\ \A t \in waits[x].awaited :
           /\ tasks[t].state \in {"running", "done"}
           /\ ~tasks[t].cancel
    /\ \E t \in waits[x].awaited : tasks[t].state = "running"
    /\ Commit([W EXCEPT !.tasks = wait_for_timeout(tasks, waits[x].awaited)],
              calls,
              [waits EXCEPT ![x].pc = "timed_out"],
              NoReturn)

\* The cancellation has been carried out: TimeoutError, caught; False.
WaitTimedOut(x) ==
    /\ waits[x].pc = "timed_out"
    /\ \A t \in waits[x].awaited : Finished(tasks, t)
    /\ Commit(W, calls, [waits EXCEPT ![x] = IdleWait],
              Returned(waits[x].op, x, "", "False"))

\* ----------------------------------------------- execute_multiple_tools
\* Id lists given to execute_multiple_tools: 1 to MaxBatch ids, repeats allowed.
IdLists == UNION {[1 .. n -> ToolIds] : n \in 1 .. MaxBatch}

\* What execute() does in a batch: two different successful results, a
\* result with success false, or an exception.
BatchOutcomes ==
    {[kind |-> "return", result |-> r, msg |-> ""] :
        r \in {[success |-> TRUE, value |-> 42], [success |-> TRUE, value |-> 43],
               [success |-> FALSE, value |-> 0]}}
    \cup {[kind |-> "raise", result |-> NoResult, msg |-> "boom"]}

\* What a tool does to the context it is given while it executes: nothing,
\* set a top-level key, or change the dictionary nested under a key.
Mutations == {"none", "top", "nested"}

\* dict.copy(): a new dictionary with the same keys and the same values; a
\* nested dictionary is a value, so the copy refers to the same one.
dict_copy(d) == d

\* A sub-call of the batch that has not begun.
NewSub(ctx) ==
    [pc |-> "new", entry |-> 0, ctx |-> ctx, passed |-> CallerContext,
     ret |-> NoResult]

\* The sub-call at position k after a step r of execute_tool; passed is the
\* context as it was when the call was made.
SubAfter(sub, r, CT) ==
    [sub EXCEPT !.pc = IF r.pc = "idle" THEN "returned" ELSE r.pc,
                !.entry = r.entry,
                !.ret = r.ret,
                !.passed = IF sub.pc = "new" THEN CT[sub.ctx] ELSE @]

\* As context_inject, but a key that is already present is kept.
context_inject_keep_first(ctx, id, result) ==
    IF ctx.results[id] = NoResult THEN [ctx EXCEPT !.results[id] = result] ELSE ctx

\* context[f"{tool_id}_result"] = result
context_inject(ctx, id, result) == [ctx EXCEPT !.results[id] = result]

\* The body of the sequential loop after execute_tool returned at position
\* k: record the id and the result, chain a successful result into the
\* shared context, mark the batch failed otherwise.
sequential_collect(S, k, result) ==
    LET id == S.B.ids[k]
        ok == Get(result, "success", FALSE)
    IN  [S EXCEPT !.B.results.tools_executed = Append(@, id),
                  !.B.results.tool_results[id] = result,
                  !.B.results.success = IF ok THEN @ ELSE FALSE,
                  !.B.idx = k + 1,
                  !.CT[0] = IF ok THEN context_inject(@, id, result) ELSE @]

\* The sequential loop from position S.B.idx up to the next suspension
\* point (an await inside execute_tool) or to the end of the list.
RECURSIVE sequential_run(_)
sequential_run(S) ==
    LET k == S.B.idx
    IN  IF k > Len(S.B.ids)
        THEN [S EXCEPT !.B.pc = "done"]
        ELSE LET r == execute_tool_begin(S.w, S.B.ids[k])
                 S1 == [S EXCEPT !.w = r.w,
                                 !.B.subs[k] = SubAfter(@, r, S.CT)]
             IN  IF r.pc = "idle"
                 THEN sequential_run(sequential_collect(S1, k, r.ret))
                 ELSE S1

\* As parallel_collect, but every id is given the result of the first
\* coroutine.
parallel_collect_first_result(B) ==
    [B EXCEPT !.results.tools_executed = B.ids,
              !.results.tool_results =
                  [i \in ToolIds |->
                      IF \E k \in DOMAIN B.ids : B.ids[k] = i
                      THEN B.subs[1].ret ELSE NoResult],
              !.pc = "done"]

\* The parallel branch after gather: every result is recorded under its id
\* in request order; the batch is marked failed only for a result that is an
\* exception object, which execute_tool never returns.
parallel_collect(B) ==
    LET RECURSIVE fold(_, _)
        fold(R, k) ==
            IF k > Len(B.ids) THEN R
            ELSE fold([R EXCEPT !.tools_executed = Append(@, B.ids[k]),
                                !.tool_results[B.ids[k]] = B.subs[k].ret],
                      k + 1)
    IN  [B EXCEPT !.results = fold(B.results, 1), !.pc = "done"]

BatchStep(S) ==
    CommitBatch(S.w, S.B, S.CT, nested,
                IF S.B.pc = "done"
                THEN Returned("execute_multiple_tools", "", "", S.B.results)
                ELSE NoReturn)

\* execute_multiple_tools is called (once per behaviour).  Sequential: the
\* loop runs on the caller's context up to its first suspension.  Parallel:
\* one execute_tool coroutine per id, each on its own copy of the context.
BatchCall(ids, sequential) ==
    /\ batch.pc = "idle"
    /\ LET n == Len(ids)
           B == [IdleBatch EXCEPT
                    !.pc = "running", !.sequential = sequential, !.ids = ids,
                    !.idx = 1,
                    !.subs = [k \in 1 .. n |-> NewSub(IF sequential THEN 0 ELSE k)]]
           CT == [k \in CtxIds |->
                     IF ~sequential /\ k \in 1 .. n THEN dict_copy(contexts[0])
                     ELSE contexts[k]]
       IN  IF sequential
           THEN BatchStep(sequential_run([w |-> W, B |-> B, CT |-> CT]))
           ELSE BatchStep([w |-> W, B |-> B, CT |-> CT])

\* First step of a gathered execute_tool coroutine.
ParallelSubStart(k) ==
    /\ batch.pc = "running"
    /\ ~batch.sequential
    /\ k \in DOMAIN batch.subs
    /\ batch.subs[k].pc = "new"
    /\ LET r == execute_tool_begin(W, batch.ids[k])
       IN  BatchStep([w |-> r.w,
                      B |-> [batch EXCEPT !.subs[k] = SubAfter(@, r, contexts)],
                      CT |-> contexts])

\* The context and the nested dictionaries after the tool at position k
\* has made mutation m on the context it was given.
mutate(CT, N, k, ctx, m) ==
    [CT |-> IF m = "top" THEN [CT EXCEPT ![ctx].mark = k] ELSE CT,
     N |-> IF m = "nested" THEN [N EXCEPT ![CT[ctx].opts] = k] ELSE N]

\* The tool at position k returns or raises.  In a sequential batch the
\* loop goes on to the next suspension point.
SubDone(k, out, m) ==
    /\ batch.pc = "running"
    /\ k \in DOMAIN batch.subs
    /\ batch.subs[k].pc = "executing"
    /\ LET sub == batch.subs[k]
           r == execute_tool_end(W, batch.ids[k], sub.entry, Query, out)
           M == mutate(contexts, nested, k, sub.ctx, m)
           S == [w |-> r.w,
                 B |-> [batch EXCEPT !.subs[k].pc = "returned",
                                     !.subs[k].entry = 0,
                                     !.subs[k].ret = r.ret],
                 CT |-> M.CT]
           S2 == IF batch.sequential
                 THEN sequential_run(sequential_collect(S, k, r.ret))
                 ELSE S
       IN  CommitBatch(S2.w, S2.B, S2.CT, M.N,
                       IF S2.B.pc = "done"
                       THEN Returned("execute_multiple_tools", "", "", S2.B.results)
                       ELSE NoReturn)

\* gather completes: every coroutine has returned.
ParallelJoin ==
    /\ batch.pc = "running"
    /\ ~batch.sequential
    /\ \A k \in DOMAIN batch.subs : batch.subs[k].pc = "returned"
    /\ BatchStep([w |-> W, B |-> parallel_collect(batch), CT |-> contexts])

\* ------------------------------------------------------- specifications
\* The background initialization tasks.
InitTasks ==
    \/ \E t \in Objs : InitTaskStart(t)
    \/ \E t \in Objs, out \in InitOutcomes : InitTaskFinish(t, out)

\* One caller of execute_tool, making calls while fewer than n executions
\* have been started.
Execute(c, n) ==
    \/ \E id \in ToolIds : ExecsStarted < n /\ ExecuteToolCall(c, id)
    \/ \E out \in InitOutcomes : ExecuteToolInitDone(c, out)
    \/ \E out \in ExecOutcomes : ExecuteToolDone(c, out)

\* The registry under additions, removals and background initialization.
Next ==
    \/ \E id \in ToolIds, h \in BOOLEAN : AddTool(id, h)
    \/ \E id \in ToolIds : RemoveTool(id)
    \/ InitTasks
    \/ \E t \in Objs : InitTaskCancelled(t)

Spec == Init /\ [][Next]_vars

\* One registered tool, executed by one caller while its background
\* initialization runs.
NextExec ==
    \/ \E id \in ToolIds, h \in BOOLEAN : total_added = 0 /\ AddTool(id, h)
    \/ InitTasks
    \/ Execute("c1", MaxExecs)

SpecExec == Init /\ [][NextExec]_vars

\* The wait helpers against additions, removals and background
\* initialization.
NextWait ==
    \/ \E id \in ToolIds, h \in BOOLEAN : AddTool(id, h)
    \/ \E id \in ToolIds : RemoveTool(id)
    \/ InitTasks
    \/ \E t \in Objs : InitTaskCancelled(t)
    \/ \E x \in Waiters, id \in ToolIds : WaitForToolCall(x, id)
    \/ \E x \in Waiters : WaitForAllCall(x)
    \/ \E x \in Waiters : WaitDone(x)
    \/ \E x \in Waiters : WaitTimeout(x)
    \/ \E x \in Waiters : WaitTimedOut(x)

SpecWait == Init /\ [][NextWait]_vars

\* One registered tool and two concurrent callers of execute_tool.
NextRace ==
    \/ \E id \in ToolIds, h \in BOOLEAN : total_added = 0 /\ AddTool(id, h)
    \/ InitTasks
    \/ \E c \in Callers : Execute(c, MaxExecs)

SpecRace == Init /\ [][NextRace]_vars

\* The owner of the registry disables a tool: get_tool(id).status = DISABLED.
DisableTool(id) ==
    /\ tool_map[id] # 0
    /\ entries[tool_map[id]].status # DISABLED
    /\ Commit([W EXCEPT !.entries[tool_map[id]].status = DISABLED],
              calls, waits, Returned("get_tool", "", id, NoResult))

\* Two callers of execute_tool on one tool that may be disabled meanwhile.
NextDispatch ==
    \/ NextRace
    \/ \E id \in ToolIds : DisableTool(id)

SpecDispatch == Init /\ [][NextDispatch]_vars

\* One batch, sequential or parallel, over tools that need no
\* initialization and leave their context alone.
NextCollect ==
    \/ \E id \in ToolIds : batch.pc = "idle" /\ AddTool(id, FALSE)
    \/ \E ids \in IdLists, sequential \in BOOLEAN : BatchCall(ids, sequential)
    \/ \E k \in 1 .. MaxBatch : ParallelSubStart(k)
    \/ \E k \in 1 .. MaxBatch, out \in BatchOutcomes : SubDone(k, out, "none")
    \/ ParallelJoin

SpecCollect == Init /\ [][NextCollect]_vars

\* The registry is cleaned up at any moment of its life.
NextCleanup ==
    \/ Next
    \/ Cleanup

SpecCleanup == Init /\ [][NextCleanup]_vars

\* ------------------------------------- matches_query, find_matching_tools
\* The texts of the matching scenarios.
COST == <<"c", "o", "s", "t">>
ESTIMATE == <<"e", "s", "t", "i", "m", "a", "t", "e">>
COST_ESTIMATOR == <<"c", "o", "s", "t", "_", "e", "s", "t", "i", "m", "a", "t", "o", "r">>
MY == <<"m", "y">>
MY_TOOL == <<"m", "y", " ", "t", "o", "o", "l">>
ESTIMATE_MY_COST == <<"e", "s", "t", "i", "m", "a", "t", "e", " ", "m", "y", " ", "c", "o", "s", "t">>
UPPER_MY == <<"M", "Y">>

\* The spelling of the tool ids where it matters, in the matching of queries.
Spelling(id) ==
    IF id = "a" THEN COST_ESTIMATOR
    ELSE MY

\* str.lower() over the characters that occur.
lower(s) ==
    [i \in DOMAIN s |->
        IF s[i] = "M" THEN "m" ELSE IF s[i] = "Y" THEN "y" ELSE s[i]]

\* x in y, for strings: x occurs in y as a substring (the empty string
\* occurs in every string).
IsSubstring(x, y) ==
    \E i \in 0 .. Len(y) - Len(x) :
        \A j \in 1 .. Len(x) : y[i + j] = x[j]

\* str.split(): the maximal runs of characters other than blanks.
split(s) ==
    LET RECURSIVE words(_, _, _)
        words(i, cur, acc) ==
            IF i > Len(s)
            THEN IF cur = <<>> THEN acc ELSE Append(acc, cur)
            ELSE IF s[i] = " "
            THEN words(i + 1, <<>>, IF cur = <<>> THEN acc ELSE Append(acc, cur))
            ELSE words(i + 1, Append(cur, s[i]), acc)
    IN  words(1, <<>>, <<>>)

\* Number of the texts of list that occur in q once both are lowered.
Hits(list, q) ==
    Cardinality({i \in DOMAIN list : IsSubstring(lower(list[i]), q)})

\* As matches_query, but the keywords count once however many of them occur.
matches_query_any_keyword(d, query) ==
    LET q == lower(query)
        score ==
            (IF Hits(d.keywords, q) > 0 THEN 4 ELSE 0)
            + 3 * Hits(d.capabilities, q)
            + (IF IsSubstring(lower(d.name), q) THEN 2 ELSE 0)
            + (IF Hits(split(lower(d.description)), q) > 0 THEN 1 ELSE 0)
    IN  IF score < 10 THEN score ELSE 10

\* ToolEntryDTO.matches_query; scores are counted in tenths (0.4 is 4).
matches_query(d, query) ==
    LET q == lower(query)
        score ==
            4 * Hits(d.keywords, q)
            + 3 * Hits(d.capabilities, q)
            + (IF IsSubstring(lower(d.name), q) THEN 2 ELSE 0)
            + (IF Hits(split(lower(d.description)), q) > 0 THEN 1 ELSE 0)
    IN  IF score < 10 THEN score ELSE 10

\* ToolEntryDTO.is_available
is_available(e) == e.status \in {READY, UNINITIALIZED}

\* ToolMapManager.find_matching_tools: the available entries of the map that
\* score at least threshold, highest score first; the sort is stable, so
\* equal scores stay in the map's insertion order, which is the order of the
\* object numbers.
find_matching_tools(w, D, query, threshold) ==
    LET score(o) == matches_query(D[o], query)
        RECURSIVE sorted(_)
        sorted(S) ==
            IF S = {} THEN <<>>
            ELSE LET o == CHOOSE x \in S :
                              \A y \in S : \/ score(x) > score(y)
                                           \/ score(x) = score(y) /\ x <= y
                 IN  <<[tool_id |-> w.entries[o].tool_id, entry |-> o,
                        score |-> score(o)]>> \o sorted(S \ {o})
    IN  sorted({o \in Objs :
                  /\ \E i \in ToolIds : w.tool_map[i] = o
                  /\ is_available(w.entries[o])
                  /\ score(o) >= threshold})

\* Arguments of add_tool that describe the tool.
Descriptions ==
    [name : {<<>>}, description : {<<>>, MY_TOOL},
     capabilities : {<<>>, <<COST>>}, keywords : {<<>>, <<COST, ESTIMATE>>}]

Queries == {ESTIMATE_MY_COST, UPPER_MY}

\* Thresholds, in tenths.
Thresholds == {3, 5}

\* add_tool with its descriptive arguments: the entry gets the id as its
\* name when no name is given.
AddDescribedTool(id, h, d) ==
    LET r == add_tool(W, id, h)
    IN  /\ r.ret => total_added < MaxAdds
        /\ CommitRegistry(Reclaim(r.w, calls, waits, batch))
        /\ descr' = IF r.ret
                    THEN [descr EXCEPT ![r.w.total_added] =
                            [d EXCEPT !.name = IF @ = <<>> THEN Spelling(id) ELSE @]
                            @@ [tool_id |-> Spelling(id)]]
                    ELSE descr
        /\ last' = Returned("add_tool", "", id, r.ret)
        /\ UNCHANGED <<calls, waits, batch, contexts, nested, dto, dto_log>>

\* find_matching_tools reads the registry; the step records its arguments
\* and the list it returns.
FindMatchingTools(query, threshold) ==
    Commit(W, calls, waits,
           Returned("find_matching_tools", "", "",
                    [query |-> query, threshold |-> threshold,
                     matches |-> find_matching_tools(W, descr, query, threshold)]))

\* Tools without initializer are added with their descriptions, disabled by
\* the owner, and searched.
NextMatch ==
    \/ \E id \in ToolIds, d \in Descriptions : AddDescribedTool(id, FALSE, d)
    \/ \E id \in ToolIds : DisableTool(id)
    \/ \E query \in Queries, threshold \in Thresholds :
           FindMatchingTools(query, threshold)

SpecMatch == Init /\ [][NextMatch]_vars

\* The registry under additions, removals, cleanup and background
\* initialization, with one caller making a single execution.
NextCounters ==
    \/ NextCleanup
    \/ Execute("c1", 1)

SpecCounters == Init /\ [][NextCounters]_vars

\* ------------------------------------------- a ToolEntryDTO on its own
\* Largest max_history_size given to the constructor of the entry.
MaxHistorySize == 2
\* Bound on the number of records handed to the entry.
MaxRecords == 4

\* Execution records handed to add_to_execution_history.
HistoryRecords ==
    {[query |-> Query, success |-> b, execution_time |-> ExecutionTime] :
        b \in BOOLEAN}

\* ToolEntryDTO(tool_id, tool_instance, max_history_size=n)
InitHistory ==
    /\ InitRegistry
    /\ dto \in {[NewEntry("a", FALSE) EXCEPT !.max_history_size = n] :
                   n \in 0 .. MaxHistorySize}
    /\ dto_log = <<>>

\* A step on the entry alone: the registry is not involved.
DtoStep(e, rec, op) ==
    /\ Len(dto_log) < MaxRecords
    /\ dto' = e
    /\ dto_log' = Append(dto_log, rec)
    /\ last' = Returned(op, "", "", NoResult)
    /\ UNCHANGED <<tool_map, entries, initialization_tasks, tasks, max_tools,
                   total_added, total_removed, total_executions, calls, waits,
                   batch, contexts, nested, descr>>

DtoAddToHistory(rec) ==
    DtoStep(add_to_execution_history(dto, rec), rec, "add_to_execution_history")

DtoRecordError(msg) ==
    DtoStep(record_error(dto, msg), [error |-> msg, success |-> FALSE],
            "record_error")

NextHistory ==
    \/ \E rec \in HistoryRecords : DtoAddToHistory(rec)
    \/ \E msg \in ExcMessages : DtoRecordError(msg)

SpecHistory == InitHistory /\ [][NextHistory]_vars

\* initialize() returns a falsy value.
ReturnsFalse == [kind |-> "return", value |-> FALSE, msg |-> ""]

\* Tools whose initializer returns false are added and removed.
NextInitFails ==
    \/ \E id \in ToolIds : AddTool(id, TRUE)
    \/ \E id \in ToolIds : RemoveTool(id)
    \/ \E t \in Objs : InitTaskStart(t)
    \/ \E t \in Objs : InitTaskFinish(t, ReturnsFalse)
    \/ \E t \in Objs : InitTaskCancelled(t)

\* The event loop runs every task that is ready to run, and initialize()
\* returns.
SpecInitFails ==
    /\ Init
    /\ [][NextInitFails]_vars
    /\ \A t \in Objs : /\ WF_vars(InitTaskStart(t))
                       /\ WF_vars(InitTaskFinish(t, ReturnsFalse))
                       /\ WF_vars(InitTaskCancelled(t))

\* One batch over tools that need no initialization.
NextBatch ==
    \/ \E id \in ToolIds : batch.pc = "idle" /\ AddTool(id, FALSE)
    \/ \E ids \in IdLists, sequential \in BOOLEAN : BatchCall(ids, sequential)
    \/ \E k \in 1 .. MaxBatch : ParallelSubStart(k)
    \/ \E k \in 1 .. MaxBatch, out \in BatchOutcomes, m \in Mutations :
           SubDone(k, out, m)
    \/ ParallelJoin

SpecBatch == Init /\ [][NextBatch]_vars

\* One sequential batch over tools that need no initialization.
NextSequential ==
    \/ \E id \in ToolIds : batch.pc = "idle" /\ AddTool(id, FALSE)
    \/ \E ids \in IdLists : BatchCall(ids, TRUE)
    \/ \E k \in 1 .. MaxBatch, out \in BatchOutcomes, m \in Mutations :
           SubDone(k, out, m)

SpecSequential == Init /\ [][NextSequential]_vars

\* ----------------------------------------------------------------- claims
\* C1: the registry never holds more than max_tools entries, and an
\* add_tool call made when the map already holds max_tools entries returns
\* false and leaves the map, its entries, total_added and the table of
\* pending initializations (and the tasks behind it) unchanged.
C1_CapacityEnforced ==
    /\ count(W) <= max_tools
    /\ [][ /\ Cardinality({i \in ToolIds : tool_map'[i] # 0}) <= max_tools'
           /\ (last'.op = "add_tool" /\ count(W) >= max_tools)
                 => /\ last'.ret = FALSE
                    /\ UNCHANGED <<tool_map, entries, total_added,
                                   initialization_tasks, tasks>> ]_vars

\* An add_tool call of a new id has just been rejected by a full registry.
C1_Witness ==
    /\ last.op = "add_tool"
    /\ last.ret = FALSE
    /\ tool_map[last.id] = 0
    /\ count(W) = max_tools

\* C2: an add_tool call with an id that is already in the map returns
\* false and leaves the existing entry, the map, total_added and the pending
\* initialization handles unchanged, and it creates no initialization task.
C2_DuplicateRejected ==
    [][ \A id \in ToolIds :
          (last'.op = "add_tool" /\ last'.id = id /\ tool_map[id] # 0)
             => /\ last'.ret = FALSE
                /\ entries'[tool_map[id]] = entries[tool_map[id]]
                /\ UNCHANGED <<tool_map, total_added, initialization_tasks,
                               tasks>> ]_vars

\* A duplicate add_tool has just been rejected by a registry that had room,
\* for a tool whose initialization is still pending.
C2_Witness ==
    /\ last.op = "add_tool"
    /\ last.ret = FALSE
    /\ tool_map[last.id] # 0
    /\ count(W) < max_tools
    /\ initialization_tasks[last.id] # 0

\* Calls of execute() in flight for a tool id.
InFlight(id) == {c \in Callers : calls[c].pc = "executing" /\ calls[c].tool = id}

\* C3: each tool id has at most one call of execute() in flight, and the
\* status of its entry is EXECUTING only while exactly one is in flight.
C3_SingleExecutionInFlight ==
    \A id \in ToolIds :
        /\ Cardinality(InFlight(id)) <= 1
        /\ (tool_map[id] # 0 /\ entries[tool_map[id]].status = EXECUTING)
              => Cardinality(InFlight(id)) = 1

\* The step in which caller c's execute() call ends with outcome kind k.
ExecuteEnds(c, k) ==
    /\ calls[c].pc = "executing"
    /\ last'.op = "execute_tool"
    /\ last'.who = c
    /\ last'.out.kind = k

\* C4: when execute() raises, execute_tool leaves the entry READY with
\* error_count one higher, and returns success false, a non-empty error
\* and the tool id.
C4_FailureIsolation ==
    [][ \A c \in Callers :
          ExecuteEnds(c, "raise")
             => LET e == calls[c].entry
                IN  /\ entries'[e].status = READY
                    /\ entries'[e].error_count = entries[e].error_count + 1
                    /\ last'.ret.success = FALSE
                    /\ last'.ret.error # ""
                    /\ last'.ret.tool = calls[c].tool ]_vars

\* C5: when execute() returns a result with success true, execute_tool
\* raises execution_count and total_executions by exactly one, returns the
\* tool's result unchanged and leaves the entry READY.
C5_ExecutionRoundTrip ==
    [][ \A c \in Callers :
          (ExecuteEnds(c, "return") /\ Get(last'.out.result, "success", FALSE))
             => LET e == calls[c].entry
                IN  /\ entries'[e].execution_count = entries[e].execution_count + 1
                    /\ total_executions' = total_executions + 1
                    /\ last'.ret = last'.out.result
                    /\ entries'[e].status = READY ]_vars

\* A second successful execution of a tool has just returned.
C5_Witness ==
    /\ last.op = "execute_tool"
    /\ last.out.kind = "return"
    /\ Get(last.out.result, "success", FALSE)
    /\ last.ret = last.out.result
    /\ tool_map[last.id] # 0
    /\ entries[tool_map[last.id]].execution_count = 2
    /\ entries[tool_map[last.id]].status = READY
    /\ total_executions = 2

\* Entry object o is the one the map holds under its tool id.
InMap(o) == \E i \in ToolIds : tool_map[i] = o

\* C11: a tool added with an initializer that returns false eventually has
\* status ERROR, unless it is removed from the map meanwhile.
C11_FalseInitializerEndsInError ==
    \A o \in Objs :
        (InMap(o) /\ entries[o].has_initialize /\ entries[o].status = UNINITIALIZED)
           ~> (~InMap(o) \/ entries[o].status = ERROR)

\* The background initialization of a registered tool has returned false
\* and its entry is marked ERROR.
C11_Witness ==
    \E o \in Objs :
        /\ InMap(o)
        /\ entries[o].has_initialize
        /\ entries[o].status = ERROR
        /\ initialization_tasks[entries[o].tool_id] = 0
        /\ tasks[o].state = "none"

\* C12: an initialization failure, by a false return or by an exception, is
\* recorded on the entry: an entry whose background initialization failed has
\* status ERROR together with a non-empty last_error and a last_error_time.
C12_InitializationFailureRecorded ==
    \A o \in Objs :
        (InMap(o) /\ entries[o].status = ERROR)
           => /\ entries[o].last_error \notin {"None", ""}
              /\ entries[o].last_error_time

\* C13: when add_tool returns true for a tool without an initializer, the
\* new entry is READY with initialized_at set, and no initialization handle
\* or task exists for it.
C13_NoInitializerReadyAtOnce ==
    [][ (last'.op = "add_tool" /\ last'.ret = TRUE
            /\ ~entries'[tool_map'[last'.id]].has_initialize)
          => /\ entries'[tool_map'[last'.id]].status = READY
             /\ entries'[tool_map'[last'.id]].initialized_at
             /\ initialization_tasks'[last'.id] = 0
             /\ tasks'[tool_map'[last'.id]] = NoTask ]_vars

\* add_tool has just returned true for a tool without an initializer.
C13_Witness ==
    /\ last.op = "add_tool"
    /\ last.ret = TRUE
    /\ ~entries[tool_map[last.id]].has_initialize
    /\ entries[tool_map[last.id]].status = READY
    /\ initialization_tasks[last.id] = 0

\* The registry's tables and counters are the same after the step.
RegistryUnchanged ==
    UNCHANGED <<tool_map, entries, initialization_tasks, tasks, max_tools,
                total_added, total_removed, total_executions>>

\* C14: execute_tool starts execute() only on an entry that is READY at
\* dispatch.  For an unknown id it returns a failure tagged with the id and
\* changes nothing; for an entry found EXECUTING, ERROR or DISABLED it
\* returns a failure naming that status and changes nothing; after a lazy
\* initialization that left the entry not READY it returns a failure naming
\* the status and neither executes nor touches counters.
C14_DispatchOnlyWhenReady ==
    [][ \A c \in Callers :
          /\ (calls[c].pc = "idle" /\ last'.op = "execute_tool" /\ last'.who = c)
                => /\ RegistryUnchanged
                   /\ last'.ret.success = FALSE
                   /\ last'.ret.tool = last'.id
                   /\ IF tool_map[last'.id] = 0
                      THEN last'.ret = NotFoundResult(last'.id)
                      ELSE /\ entries[tool_map[last'.id]].status
                                 \in {EXECUTING, ERROR, DISABLED}
                           /\ last'.ret = NotReadyResult(last'.id,
                                              entries[tool_map[last'.id]].status)
          /\ (calls[c].pc = "initializing" /\ last'.op = "execute_tool"
                 /\ last'.who = c)
                => LET e == calls[c].entry
                   IN  /\ entries'[e].status # READY
                       /\ last'.ret = NotReadyResult(last'.id, entries'[e].status)
                       /\ entries'[e].execution_count = entries[e].execution_count
                       /\ entries'[e].last_executed = entries[e].last_executed
                       /\ total_executions' = total_executions
          /\ (calls[c].pc = "idle" /\ calls'[c].pc = "executing")
                => /\ entries[calls'[c].entry].status = READY
                   /\ entries'[calls'[c].entry].status = EXECUTING
          /\ (calls[c].pc = "initializing" /\ calls'[c].pc = "executing")
                => entries'[calls'[c].entry].status = EXECUTING ]_vars

\* execute_tool has just turned a call away from a DISABLED entry, which is
\* still DISABLED and has never been executed.
C14_Witness ==
    /\ last.op = "execute_tool"
    /\ tool_map[last.id] # 0
    /\ entries[tool_map[last.id]].status = DISABLED
    /\ last.ret = NotReadyResult(last.id, DISABLED)
    /\ entries[tool_map[last.id]].execution_count = 0
    /\ entries[tool_map[last.id]].execution_history = <<>>

\* The n most recent elements of log, oldest first (all of it when shorter).
MostRecent(log, n) ==
    IF Len(log) <= n THEN log
    ELSE [i \in 1 .. n |-> log[Len(log) - n + i]]

\* C15: whatever max_history_size the entry was constructed with, after any
\* sequence of add_to_execution_history and record_error calls the history
\* holds at most max_history_size records, and exactly the most recent ones
\* in insertion order.
C15_HistoryBounded ==
    /\ Len(dto.execution_history) <= dto.max_history_size
    /\ dto.execution_history = MostRecent(dto_log, dto.max_history_size)

\* The last position of id in the requested list (0: not requested).
LastPosition(id) ==
    LET P == {k \in DOMAIN batch.ids : batch.ids[k] = id}
    IN  IF P = {} THEN 0 ELSE CHOOSE k \in P : \A j \in P : j <= k

\* C16: in both modes the returned tools_executed is the requested id list
\* in request order, and tool_results maps every requested id, and no other,
\* to a result execute_tool produced for that id (the one of its last
\* position in the list).
C16_ResultsByRequestOrder ==
    batch.pc = "done"
       => /\ batch.results.tools_executed = batch.ids
          /\ \A id \in ToolIds :
                batch.results.tool_results[id]
                   = IF LastPosition(id) = 0 THEN NoResult
                     ELSE batch.subs[LastPosition(id)].ret
          /\ last.op = "execute_multiple_tools" => last.ret = batch.results

\* A parallel batch <<x, y, x>> has returned; the two calls of x produced
\* different results and y succeeded.
C16_Witness ==
    /\ batch.pc = "done"
    /\ ~batch.sequential
    /\ last.op = "execute_multiple_tools"
    /\ Len(batch.ids) = 3
    /\ batch.ids[1] = batch.ids[3]
    /\ batch.ids[1] # batch.ids[2]
    /\ batch.subs[1].ret # batch.subs[3].ret
    /\ batch.subs[2].ret = [success |-> TRUE, value |-> 43]
    /\ batch.results.tool_results[batch.ids[2]] = batch.subs[2].ret
    /\ batch.results.tool_results[batch.ids[1]] = batch.subs[3].ret

\* C17: remove_tool of an absent id returns false and changes nothing; of a
\* present id it returns true, requests the cancellation of the pending
\* initialization task and drops its handle, deletes the map entry and adds
\* one to total_removed, and leaves every other entry, handle and task and
\* the other counters as they were.
C17_RemoveToolFrame ==
    [][ last'.op = "remove_tool"
          => LET id == last'.id
                 o == tool_map[id]
                 t == initialization_tasks[id]
             IN  IF o = 0
                 THEN last'.ret = FALSE /\ RegistryUnchanged
                 ELSE /\ last'.ret = TRUE
                      /\ tool_map'[id] = 0
                      /\ initialization_tasks'[id] = 0
                      /\ total_removed' = total_removed + 1
                      /\ t # 0 => tasks'[t] = [tasks[t] EXCEPT !.cancel = TRUE]
                      /\ \A j \in ToolIds \ {id} :
                            /\ tool_map'[j] = tool_map[j]
                            /\ initialization_tasks'[j] = initialization_tasks[j]
                      /\ \A p \in Objs \ {o} : entries'[p] = entries[p]
                      /\ \A u \in Objs \ {t} : tasks'[u] = tasks[u]
                      /\ UNCHANGED <<total_added, total_executions, max_tools>> ]_vars

\* remove_tool has just removed a tool whose initialization was running,
\* while another tool is registered with its own pending initialization.
C17_Witness ==
    /\ last.op = "remove_tool"
    /\ last.ret = TRUE
    /\ tool_map[last.id] = 0
    /\ initialization_tasks[last.id] = 0
    /\ total_removed = 1
    /\ \E t \in Objs : /\ tasks[t].tool = last.id
                       /\ tasks[t].state = "running"
                       /\ tasks[t].cancel
    /\ \E j \in ToolIds \ {last.id} :
          tool_map[j] # 0 /\ initialization_tasks[j] # 0

\* C18: when cleanup returns the map is empty, no initialization handle is
\* left, every background initialization that was pending or running has a
\* cancellation request, and total_removed has grown by the number of
\* entries the map held.
C18_CleanupLeavesNothing ==
    [][ last'.op = "cleanup"
          => /\ \A i \in ToolIds :
                   tool_map'[i] = 0 /\ initialization_tasks'[i] = 0
             /\ total_removed' = total_removed + count(W)
             /\ \A t \in Objs :
                   tasks[t].state \in {"pending", "running"} => tasks'[t].cancel ]_vars

\* The end-to-end scenario: the registry holds one tool, spelled
\* cost_estimator, READY, with keywords cost and estimate and no name,
\* description or capabilities given, and find_matching_tools has just been
\* called with "estimate my cost" and threshold 0.3.
Scenario ==
    /\ last.op = "find_matching_tools"
    /\ last.ret.query = ESTIMATE_MY_COST
    /\ last.ret.threshold = 3
    /\ count(W) = 1
    /\ tool_map["a"] # 0
    /\ entries[tool_map["a"]].status = READY
    /\ descr[tool_map["a"]] =
          [tool_id |-> COST_ESTIMATOR, name |-> COST_ESTIMATOR,
           description |-> <<>>, capabilities |-> <<>>,
           keywords |-> <<COST, ESTIMATE>>]

\* C19 as stated: in the scenario find_matching_tools returns exactly one
\* match, for cost_estimator, with score 0.4.
C19_ScenarioScore ==
    Scenario
       => last.ret.matches
             = <<[tool_id |-> "a", entry |-> tool_map["a"], score |-> 4]>>

\* C19 amended: in the scenario find_matching_tools returns exactly one
\* match, for cost_estimator, with score 0.8 (0.4 for each of the two
\* keywords that occur in the query).
C19_ScenarioScoreBothKeywords ==
    Scenario
       => last.ret.matches
             = <<[tool_id |-> "a", entry |-> tool_map["a"], score |-> 8]>>

\* The scenario has been played.
C19_Witness ==
    /\ Scenario
    /\ Len(last.ret.matches) = 1
    /\ last.ret.matches[1].score = 8

\* Invocations of initialize() in flight for a tool id: background tasks
\* suspended in it and execute_tool calls suspended in their lazy
\* initialization.
InitializationsInFlight(id) ==
    Cardinality({t \in Objs : tasks[t].state = "running" /\ tasks[t].tool = id})
    + Cardinality({c \in Callers :
                     calls[c].pc = "initializing" /\ calls[c].tool = id})

\* C20: for each tool id at most one invocation of initialize() is in
\* flight, over the background task of add_tool and the lazy initialization
\* of execute_tool together.
C20_SingleInitializationInFlight ==
    \A id \in ToolIds : InitializationsInFlight(id) <= 1

\* C21: the status of a registered entry that is ERROR or DISABLED is not
\* changed by any step of the registry or of a background task (the reset to
\* READY after a failed execute() happens inside one step and never shows
\* ERROR); the owner's own assignment through get_tool is not such a step.
C21_ErrorAndDisabledAreFinal ==
    [][ \A o \in Objs :
          (/\ entries[o].status \in {ERROR, DISABLED}
           /\ InMap(o)
           /\ last'.op # "get_tool")
             => entries'[o].status = entries[o].status ]_vars

\* The awaited initialization of waiter x has ended in a failure: its task
\* was cancelled, or it finished leaving its entry in ERROR.
AwaitedInitializationFailed(x) ==
    \E t \in waits[x].awaited :
        \/ tasks[t].state = "cancelled"
        \/ /\ tasks[t].state = "done"
           /\ tasks[t].entry # 0
           /\ entries[tasks[t].entry].status = ERROR

\* C22: wait_for_tool_initialization never raises, and it returns false
\* when the initialization it was waiting for failed or was cancelled.
C22_WaitNeverRaises ==
    [][ \A x \in Waiters :
          (last'.op = "wait_for_tool_initialization" /\ last'.who = x)
             => /\ last'.ret # "CancelledError"
                /\ (waits[x].pc = "waiting" /\ AwaitedInitializationFailed(x))
                      => last'.ret = "False" ]_vars

\* C23: on every entry average_execution_time is total_execution_time
\* divided by execution_count when execution_count is positive, and 0 when
\* it is 0.
C23_AverageIsTotalOverCount ==
    \A o \in Objs :
        entries[o].status # "unallocated"
           => entries[o].average_execution_time
                 = IF entries[o].execution_count > 0
                   THEN <<entries[o].total_execution_time, entries[o].execution_count>>
                   ELSE <<0, 1>>

\* An entry has been executed twice.
C23_Witness ==
    \E o \in Objs :
        /\ entries[o].execution_count = 2
        /\ entries[o].total_execution_time = 2 * ExecutionTime
        /\ entries[o].average_execution_time = <<2 * ExecutionTime, 2>>

\* C24: the map holds total_added - total_removed entries; a successful
\* add_tool adds one to total_added, a successful remove_tool (cleanup makes
\* one for every entry of the map) adds one to total_removed, and rejected
\* calls and all other steps leave both counters unchanged.
C24_CountersMatchMap ==
    /\ [](count(W) = total_added - total_removed)
    /\ [][ /\ total_added' =
                 total_added
                 + (IF last'.op = "add_tool" /\ last'.ret = TRUE THEN 1 ELSE 0)
           /\ total_removed' =
                 total_removed
                 + (IF last'.op = "remove_tool" /\ last'.ret = TRUE THEN 1
                    ELSE IF last'.op = "cleanup" THEN count(W)
                    ELSE 0) ]_vars

\* A tool has just been removed from a registry that saw two additions and
\* still holds the other tool.
C24_Witness ==
    /\ last.op = "remove_tool"
    /\ last.ret = TRUE
    /\ total_added = 2
    /\ total_removed = 1
    /\ count(W) = 1

\* The execution statistics of entry o differ between the two states of a
\* step.
StatisticsChange(o) ==
    \/ entries'[o].execution_count # entries[o].execution_count
    \/ entries'[o].total_execution_time # entries[o].total_execution_time
    \/ entries'[o].average_execution_time # entries[o].average_execution_time

\* C25: the step in which execute_tool handles an exception raised by the
\* tool's execute() leaves execution_count, total_execution_time,
\* average_execution_time and total_executions as they were and appends one
\* failure record to the entry's history; a step that changes one of these
\* counters is the end of an execute_tool call whose execute() returned.
C25_FailedExecutionNotCounted ==
    [][ /\ (last'.op = "execute_tool" /\ last'.out.kind = "raise")
              => LET o == calls[last'.who].entry
                 IN  /\ ~StatisticsChange(o)
                     /\ total_executions' = total_executions
                     /\ entries'[o].execution_history =
                            Append(entries[o].execution_history,
                                   [error |-> last'.out.msg, success |-> FALSE])
        /\ (\/ total_executions' # total_executions
            \/ \E o \in Objs : /\ entries[o].status # "unallocated"
                                /\ entries'[o].status # "unallocated"
                                /\ StatisticsChange(o))
              => (last'.op = "execute_tool" /\ last'.out.kind = "return") ]_vars

\* An execute_tool call has just failed on an entry with one counted
\* execution: the count stays at one, the history holds both records.
C25_Witness ==
    /\ last.op = "execute_tool"
    /\ last.out.kind = "raise"
    /\ total_executions = 1
    /\ \E o \in Objs :
          /\ entries[o].execution_count = 1
          /\ entries[o].error_count = 1
          /\ Len(entries[o].execution_history) = 2
          /\ entries[o].execution_history[2] =
                 [error |-> last.out.msg, success |-> FALSE]

\* The outcome of the batch's sub-call at position k counts as a success.
Succeeded(k) ==
    /\ batch.subs[k].pc = "returned"
    /\ Get(batch.subs[k].ret, "success", FALSE) = TRUE

\* C6: in both modes the success flag execute_multiple_tools returns is the
\* conjunction of the individual outcomes: false if any listed tool failed,
\* true otherwise.
C6_AggregateSuccess ==
    [][ last'.op = "execute_multiple_tools"
          => (last'.ret.success
                 = \A k \in DOMAIN batch'.subs :
                      Get(batch'.subs[k].ret, "success", FALSE) = TRUE) ]_vars

\* Sub-calls of a sequential batch are made one at a time in list order, and
\* the batch returns only after every listed tool was called and recorded.
SequentialOrder ==
    /\ \A k \in DOMAIN batch.subs :
          batch.subs[k].pc # "new"
             => \A j \in 1 .. k - 1 : batch.subs[j].pc = "returned"
    /\ batch.pc = "done"
          => /\ \A k \in DOMAIN batch.subs : batch.subs[k].pc = "returned"
             /\ batch.results.tools_executed = batch.ids

\* Position of the latest successful call of id before position k (0: none).
LatestSuccess(id, k) ==
    LET P == {j \in 1 .. k - 1 : batch.ids[j] = id /\ Succeeded(j)}
    IN  IF P = {} THEN 0 ELSE CHOOSE j \in P : \A i \in P : i <= j

C8_ParallelIsolation ==
    (batch.pc # "idle" /\ ~batch.sequential)
       => /\ contexts[0].mark = 0
          /\ nested[contexts[0].opts] = 0
          /\ \A k \in DOMAIN batch.subs :
                /\ contexts[batch.subs[k].ctx].mark \in {0, k}
                /\ nested[contexts[batch.subs[k].ctx].opts] \in {0, k}

\* The step in which waiter x's call of op returns after its timeout expired.
TimedOutReturn(x, op) ==
    /\ waits[x].pc = "timed_out"
    /\ waits[x].op = op
    /\ last'.op = op
    /\ last'.who = x

\* A task that is still running behind its handle.
StillPending(t) ==
    /\ tasks'[t].state = "running"
    /\ ~tasks'[t].cancel
    /\ initialization_tasks'[tasks[t].tool] = t

\* C9: a wait_for_tool_initialization that times out returns false without
\* cancelling: the awaited initialization is still running behind its handle.
C9_TimeoutKeepsInitialization ==
    [][ \A x \in Waiters :
          TimedOutReturn(x, "wait_for_tool_initialization")
             => /\ last'.ret = "False"
                /\ \A t \in waits[x].awaited : StillPending(t) ]_vars

\* C10: a wait_for_all_initializations that times out returns false and
\* leaves every handle it waited on in place, its task still running.
C10_TimeoutKeepsHandles ==
    [][ \A x \in Waiters :
          TimedOutReturn(x, "wait_for_all_initializations")
             => /\ last'.ret = "False"
                /\ \A t \in waits[x].awaited : StillPending(t) ]_vars
====
